---- MODULE Spec2Model ----
(***************************************************************************)
(* Model of dashboard.py: the cohort retention handler                     *)
(* (get_retention_flexible_stats with get_returned_users) and the          *)
(* time-series handler (get_timeseries_stats).                             *)
(*                                                                         *)
(* Dates are day numbers counted from 1970-01-01 (day 0, a Thursday); the  *)
(* calendar operators below compute what datetime.date, timedelta and      *)
(* dateutil.relativedelta compute.  A percentage rounded to one decimal is *)
(* kept as an integer number of tenths (42.9 is 429).                      *)
(***************************************************************************)
EXTENDS Integers, Sequences, FiniteSets, TLC

\* SQL NULL / Python None in a date column (no day number is negative)
NULL == 0 - 1

----------------------------------------------------------------------------
(* Bounds of the model *)

\* user ids are 1..NUsers
NUsers == 2
\* the handlers are called with period in 0..MaxPeriod (0 is rejected)
MaxPeriod == 2
\* the calendar date of datetime.now() changes at most MaxTicks times
\* while a request is in flight
MaxTicks == 1
\* date_to is drawn from date_from - 1 .. date_from + MaxSpan
MaxSpan == 40
\* the percentage is computed for cohort sizes 0..MaxReg
MaxReg == 10
\* get_returned_users is evaluated for periods 1..MaxEvalPeriod
MaxEvalPeriod == 3
NScanUsers == 4

----------------------------------------------------------------------------
(* Calendar: datetime.date, timedelta, relativedelta *)

Min(a, b) == IF a <= b THEN a ELSE b

IsLeap(y) == (y % 4 = 0 /\ y % 100 # 0) \/ y % 400 = 0

DaysInMonth(y, m) ==
    IF m = 2 THEN (IF IsLeap(y) THEN 29 ELSE 28)
    ELSE IF m \in {4, 6, 9, 11} THEN 30 ELSE 31

\* date(y, m, d) as a day number (proleptic Gregorian calendar); yy and mp
\* are the year and the month of the year that starts in March
DaysFromMarchYear(yy, mp, d) ==
    (yy \div 400) * 146097 + (yy % 400) * 365 + (yy % 400) \div 4
        - (yy % 400) \div 100 + (153 * mp + 2) \div 5 + d - 1 - 719468

DaysFromCivil(y, m, d) ==
    DaysFromMarchYear(IF m <= 2 THEN y - 1 ELSE y,
                      IF m > 2 THEN m - 3 ELSE m + 9, d)

\* the <<year, month, day>> of a day number: what date.isoformat() prints.
\* doe is the day of the 400-year era, yoe the year of the era, doy the day
\* of the year that starts in March, mp its month.
CivilOfMonth(y0, doy, mp) ==
    <<y0 + (IF mp >= 10 THEN 1 ELSE 0),
      IF mp < 10 THEN mp + 3 ELSE mp - 9,
      doy - (153 * mp + 2) \div 5 + 1>>

CivilOfDayOfYear(y0, doy) == CivilOfMonth(y0, doy, (5 * doy + 2) \div 153)

CivilOfYearOfEra(era, doe, yoe) ==
    CivilOfDayOfYear(yoe + era * 400,
                     doe - (365 * yoe + yoe \div 4 - yoe \div 100))

CivilOfDayOfEra(era, doe) ==
    CivilOfYearOfEra(era, doe,
        (doe - doe \div 1460 + doe \div 36524 - doe \div 146096) \div 365)

CivilOfShifted(zz) == CivilOfDayOfEra(zz \div 146097, zz % 146097)

CivilFromDays(z) == CivilOfShifted(z + 719468)

\* date.weekday(): Monday is 0, Sunday is 6
Weekday(z) == (z + 3) % 7

\* date(y, m, min(d, last day of the month))
ClipDay(y, m, d) == DaysFromCivil(y, m, Min(d, DaysInMonth(y, m)))

\* total counts months from year 0
DateOfMonthCount(total, d) == ClipDay(total \div 12, (total % 12) + 1, d)

AddMonthsCivil(c, n) == DateOfMonthCount(c[1] * 12 + (c[2] - 1) + n, c[3])

\* date + relativedelta(months=n): the month moves by n, the day is clipped
\* to the length of the new month
AddMonths(z, n) == AddMonthsCivil(CivilFromDays(z), n)

FirstOfCivil(c) == DaysFromCivil(c[1], c[2], 1)

\* date.replace(day=1)
FirstOfMonth(z) == FirstOfCivil(CivilFromDays(z))

\* datetime.strptime(s, "%Y-%m-%d"): s is the text's <<year, month, day>>
\* fields; a date that does not exist raises ValueError
ValidDateText(s) ==
    /\ s[2] \in 1..12
    /\ s[3] \in 1..DaysInMonth(s[1], s[2])

ParseDate(s) == DaysFromCivil(s[1], s[2], s[3])

----------------------------------------------------------------------------
(* Percentages *)

\* variant of Round1 that drops the digits after the first decimal
Round1Truncating(num, den) == (1000 * num) \div den

\* q and r are the quotient and the remainder of 1000 * num by den
RoundHalfEven(q, r, den) ==
    IF 2 * r > den THEN q + 1
    ELSE IF 2 * r < den THEN q
    ELSE IF q % 2 = 0 THEN q ELSE q + 1

\* round(num / den * 100, 1) in tenths, den > 0: the nearest tenth, a tie
\* going to the even tenth
Round1(num, den) == RoundHalfEven((1000 * num) \div den, (1000 * num) % den, den)

\* round((returned / cohort_size * 100), 1) if cohort_size > 0 else 0
RetentionPercent(ret, size) ==
    IF size > 0 THEN Round1(ret, size) ELSE 0

----------------------------------------------------------------------------
(* The database: the tables the handlers read *)

UserIds == 1..NUsers

\* One user's history.  created_at and last_activity fill the users row;
\* every kind in acts is one row, dated eday, in that kind's table.
\* care_history rows reach their user through the plants join.
DbOf(hist) ==
    [users |-> {[user_id |-> u, created_at |-> hist[u].created_at,
                 last_activity |-> hist[u].last_activity] : u \in DOMAIN hist},
     care_history |->
        {[user_id |-> p[1], action_type |-> p[2], action_date |-> hist[p[1]].eday] :
            p \in {q \in (DOMAIN hist) \X {"watered", "fertilized"} :
                     q[2] \in hist[q[1]].acts}},
     plants |->
        {[user_id |-> u, saved_date |-> hist[u].eday] :
            u \in {v \in DOMAIN hist : "added_plant" \in hist[v].acts}},
     plant_qa_history |->
        {[user_id |-> u, question_date |-> hist[u].eday] :
            u \in {v \in DOMAIN hist : "asked_question" \in hist[v].acts}},
     growing_plants |->
        {[user_id |-> u, created_at |-> hist[u].eday] :
            u \in {v \in DOMAIN hist : "started_growing" \in hist[v].acts}},
     feedback |->
        {[user_id |-> u, created_at |-> hist[u].eday] :
            u \in {v \in DOMAIN hist : "left_feedback" \in hist[v].acts}}]

InRange(d, a, b) == d >= a /\ d <= b

\* SELECT COUNT(*) FROM users
\*   WHERE created_at::date >= a AND created_at::date <= b
CountRegistered(d, a, b) ==
    Cardinality({u \in d.users : InRange(u.created_at, a, b)})

\* the user ids registered in [a, b] (the JOIN users ... WHERE created_at
\* part of the get_returned_users queries)
CohortIds(d, a, b) ==
    {u.user_id : u \in {v \in d.users : InRange(v.created_at, a, b)}}

\* variant of CountLastActivity without the upper end of the window
CountLastActivityFrom(d, cs, ce, a, b) ==
    Cardinality({u.user_id : u \in {v \in d.users :
        /\ InRange(v.created_at, cs, ce)
        /\ v.last_activity # NULL
        /\ v.last_activity >= a}})

\* SELECT COUNT(DISTINCT u.user_id) FROM users u WHERE created_at in [cs, ce]
\*   AND last_activity IS NOT NULL AND last_activity::date in [a, b]
CountLastActivity(d, cs, ce, a, b) ==
    Cardinality({u.user_id : u \in {v \in d.users :
        /\ InRange(v.created_at, cs, ce)
        /\ v.last_activity # NULL
        /\ InRange(v.last_activity, a, b)}})

\* SELECT DISTINCT p.user_id FROM care_history ch JOIN plants p JOIN users u
\*   WHERE cohort AND ch.action_type = 'watered' AND ch.action_date in [a, b]
FetchWatered(d, cs, ce, a, b) ==
    {r.user_id : r \in {c \in d.care_history :
        /\ c.user_id \in CohortIds(d, cs, ce)
        /\ c.action_type = "watered"
        /\ InRange(c.action_date, a, b)}}

\* SELECT DISTINCT p.user_id FROM plants p JOIN users u
\*   WHERE cohort AND p.saved_date in [a, b]
FetchAddedPlant(d, cs, ce, a, b) ==
    {r.user_id : r \in {c \in d.plants :
        /\ c.user_id \in CohortIds(d, cs, ce)
        /\ InRange(c.saved_date, a, b)}}

\* SELECT DISTINCT qa.user_id FROM plant_qa_history qa JOIN users u
\*   WHERE cohort AND qa.question_date in [a, b]
FetchAskedQuestion(d, cs, ce, a, b) ==
    {r.user_id : r \in {c \in d.plant_qa_history :
        /\ c.user_id \in CohortIds(d, cs, ce)
        /\ InRange(c.question_date, a, b)}}

----------------------------------------------------------------------------
(* get_returned_users *)

\* variant of RollingStart that opens the window at the target window
RollingStartAtTarget(cohort_end, target_start) == target_start

\* variant of RollingStart that opens the window after the target's start
RollingStartLate(cohort_end, target_start) == target_start + 1

\* rolling_start = cohort_end + timedelta(days=1)
RollingStart(cohort_end, target_start) == cohort_end + 1

\* variant of FunctionalCount that adds the lengths of the three lists
FunctionalCountOfLists(w, a, q) == Cardinality(w) + Cardinality(a) + Cardinality(q)

\* functional_users = set(); three update() calls; len(functional_users)
FunctionalCount(w, a, q) == Cardinality(w \cup a \cup q)

NoFetch == [watered_users |-> {}, added_plant_users |-> {},
            asked_question_users |-> {}]

\* the functional branch, given the three fetched id lists
FunctionalResult(w, a, q) ==
    [returned |-> FunctionalCount(w, a, q),
     fetched |-> [watered_users |-> w, added_plant_users |-> a,
                  asked_question_users |-> q]]

\* The value returned, with the three fetched lists of the functional branch
\* (empty in the other branches, which do not fetch them).
GetReturnedUsers(d, retention_type, cohort_start, cohort_end, target_start, target_end) ==
    IF retention_type = "classic" THEN
        [returned |-> CountLastActivity(d, cohort_start, cohort_end,
                                        target_start, target_end),
         fetched |-> NoFetch]
    ELSE IF retention_type = "functional" THEN
        FunctionalResult(
            FetchWatered(d, cohort_start, cohort_end, target_start, target_end),
            FetchAddedPlant(d, cohort_start, cohort_end, target_start, target_end),
            FetchAskedQuestion(d, cohort_start, cohort_end, target_start, target_end))
    ELSE
        [returned |-> CountLastActivity(d, cohort_start, cohort_end,
                          RollingStart(cohort_end, target_start), target_end),
         fetched |-> NoFetch]

----------------------------------------------------------------------------
(* Cohort and target windows of get_retention_flexible_stats *)

Granularities == {"day", "week", "month"}
RetentionTypes == {"classic", "functional", "rolling"}

\* variant of ScanCap without the min
ScanCapUnclamped(granularity, period) ==
    IF granularity = "month" THEN period * 3 ELSE period * 5

\* range(min(365, period * 5)), range(min(52, period * 5)),
\* range(min(12, period * 3))
ScanCap(granularity, period) ==
    IF granularity = "day" THEN Min(365, period * 5)
    ELSE IF granularity = "week" THEN Min(52, period * 5)
    ELSE Min(12, period * 3)

\* variant of WeekOf without the step back to Monday
WeekOfUnaligned(z) == <<z, z + 6>>

\* the Monday-to-Sunday week containing day z
WeekOf(z) == <<z - Weekday(z), z - Weekday(z) + 6>>

\* the seven days starting at start
WeekFrom(start) == <<start, start + 6>>

\* the month starting at first: first + relativedelta(months=1) - one day
MonthFrom(first) == <<first, AddMonths(first, 1) - 1>>

\* <<cohort_start, cohort_end>> for scan index idx, today being the date of
\* datetime.now()
CohortWindow(granularity, today, idx, period) ==
    IF granularity = "day" THEN
        <<today - (idx + period), today - (idx + period)>>
    ELSE IF granularity = "week" THEN
        WeekOf(today - 7 * (idx + period))
    ELSE
        MonthFrom(FirstOfMonth(AddMonths(today, 0 - (idx + period))))

\* variant of TargetWindow that is one day short
TargetWindowOffByOne(granularity, cohort_start, period) ==
    <<cohort_start + period - 1, cohort_start + period - 1>>

\* <<target_start, target_end>> of the cohort window starting at cohort_start
TargetWindow(granularity, cohort_start, period) ==
    IF granularity = "day" THEN
        <<cohort_start + period, cohort_start + period>>
    ELSE IF granularity = "week" THEN
        WeekFrom(cohort_start + 7 * period)
    ELSE
        MonthFrom(AddMonths(cohort_start, period))

\* date.isoformat()
IsoFormat(z) == CivilFromDays(z)

\* strftime('%d.%m')
DayMonth(c) == <<c[3], c[2]>>

\* strftime('%d.%m')-strftime('%d.%m') of a week's first and last day
WeekLabel(a, b) == <<DayMonth(CivilFromDays(a)), DayMonth(CivilFromDays(b))>>

MonthYear(c) == <<c[2], c[1]>>

\* strftime('%b %Y')
MonthLabel(z) == MonthYear(CivilFromDays(z))

----------------------------------------------------------------------------
(* State *)

VARIABLES
    db_pool,            \* TRUE when the asyncpg pool was created
    db,                 \* the tables
    now,                \* the calendar date of datetime.now()
    ticks,              \* how often that date has changed
    pc,                 \* where the request is
    req,                \* the request's query parameters
    i,                  \* loop index of the cohort scan
    cohort_start, cohort_end, target_start, target_end,
    cohort_size, returned, fetched, retention_percent,
    cohorts,            \* the list the retention handler builds
    current_date,       \* loop variable of the time-series handler
    bucket_end,         \* current_date, week_end or month_end of the bucket
    data_points,        \* the list the time-series handler builds
    response,           \* the HTTP response
    conn,               \* the request's use of the pool: whether it acquired
                        \* a connection, and the queries it sent
    cohort_starts,      \* history: cohort_start of each record of cohorts
    today               \* the locals of get_today_stats

vars == <<db_pool, db, now, ticks, pc, req, i, cohort_start, cohort_end,
          target_start, target_end, cohort_size, returned, fetched,
          retention_percent, cohorts, current_date, bucket_end, data_points,
          response, conn, cohort_starts, today>>

locals == <<i, cohort_start, cohort_end, target_start, target_end,
            cohort_size, returned, fetched, retention_percent>>

NoResponse == [status |-> 0]

NoRequest == [handler |-> "none"]

NoConn == [acquired |-> FALSE, fetches |-> 0]

NoToday == [step |-> 0]

\* async with db_pool.acquire() as conn
Acquire(c) == [c EXCEPT !.acquired = TRUE]

\* n more conn.fetch / conn.fetchval calls on the connection
Fetch(c, n) == [c EXCEPT !.fetches = @ + n]

\* the queries one call of get_returned_users sends
QueriesOf(retention_type) == IF retention_type = "functional" THEN 3 ELSE 1

\* the queries the time-series loop sends for one bucket
QueriesPerBucket == 7

\* variant of FailureResponse that answers with what was built so far
FailureResponsePartial(exc, built) == [status |-> 200, partial |-> built]

\* except Exception as e: raise HTTPException(status_code=500,
\* detail=str(e)): the lists built so far are dropped with the frame
FailureResponse(exc, built) == [status |-> 500, detail |-> exc]

InitLocals ==
    /\ i = 0
    /\ cohort_start = NULL /\ cohort_end = NULL
    /\ target_start = NULL /\ target_end = NULL
    /\ cohort_size = 0 /\ returned = 0 /\ fetched = NoFetch
    /\ retention_percent = 0
    /\ cohorts = <<>>
    /\ current_date = NULL /\ bucket_end = NULL
    /\ data_points = <<>>
    /\ response = NoResponse
    /\ conn = NoConn
    /\ cohort_starts = <<>>
    /\ today = NoToday

----------------------------------------------------------------------------
(* get_retention_flexible_stats *)

\* the request dates of the model: a Wednesday in mid-month, a Sunday that
\* is the last day of a 31-day month following a leap February, and a
\* Monday that is the first day of a year
StartDates ==
    {DaysFromCivil(2024, 3, 13), DaysFromCivil(2024, 3, 31), DaysFromCivil(2024, 1, 1)}

\* One user's possible history, relative to a date t: registered 2 or 40
\* days before t; never seen again, or last seen 1 or 26 days before t, or
\* watered and added a plant the day before t.
HistoriesBefore(t) ==
    {[created_at |-> t - c, last_activity |-> NULL, acts |-> {}, eday |-> NULL] :
        c \in {2, 40}}
    \cup {[created_at |-> t - c, last_activity |-> t - l, acts |-> {}, eday |-> NULL] :
        c \in {2, 40}, l \in {1, 26}}
    \cup {[created_at |-> t - c, last_activity |-> t - 1,
           acts |-> {"watered", "added_plant"}, eday |-> t - 1] : c \in {2, 40}}

\* Query(..., regex=...), Query(7, ge=1, le=365): checked by the framework
\* before the handler body runs
ValidRetentionQuery(retention_type, granularity, period) ==
    /\ retention_type \in RetentionTypes
    /\ granularity \in Granularities
    /\ period >= 1 /\ period <= 365

RetentionRequest(retention_type, granularity, period) ==
    /\ pc = "idle"
    /\ req' = [handler |-> "retention", retention_type |-> retention_type,
               granularity |-> granularity, period |-> period]
    /\ IF ~ValidRetentionQuery(retention_type, granularity, period) THEN
            /\ response' = [status |-> 422]
            /\ pc' = "done"
            /\ conn' = conn
       ELSE IF ~db_pool THEN
            /\ response' = [status |-> 500, detail |-> "Database not connected"]
            /\ pc' = "done"
            /\ conn' = conn
       ELSE
            /\ response' = response
            /\ pc' = "retention"
            /\ conn' = Acquire(conn)
    /\ UNCHANGED <<today, db_pool, db, now, ticks, locals, cohorts,
                   cohort_starts, current_date, bucket_end, data_points>>

\* cohort_label / target_label of a window w = <<start, end>>
WindowLabel(granularity, w) ==
    IF granularity = "day" THEN IsoFormat(w[1])
    ELSE IF granularity = "week" THEN WeekLabel(w[1], w[2])
    ELSE MonthLabel(w[1])

\* variant of SkipCohort without the continue
SkipCohortNever(size) == FALSE

\* if cohort_size == 0: continue
SkipCohort(size) == size = 0

\* cohorts.append({...}) with the percentage pct
AppendCohort(granularity, cw, tw, sz, res, pct) ==
    /\ returned' = res.returned
    /\ fetched' = res.fetched
    /\ retention_percent' = pct
    /\ cohort_starts' = Append(cohort_starts, cw[1])
    /\ cohorts' = Append(cohorts,
           [cohort_label |-> WindowLabel(granularity, cw),
            target_label |-> WindowLabel(granularity, tw),
            registered |-> sz,
            returned |-> res.returned,
            retention_percent |-> pct])

\* the call of get_returned_users and the percentage
EmitCohort(granularity, cw, tw, sz, res) ==
    AppendCohort(granularity, cw, tw, sz, res, RetentionPercent(res.returned, sz))

\* the body of the loop once cohort window cw, target window tw and the
\* cohort size sz are known
ScanCohort(granularity, cw, tw, sz) ==
    /\ cohort_start' = cw[1] /\ cohort_end' = cw[2]
    /\ target_start' = tw[1] /\ target_end' = tw[2]
    /\ cohort_size' = sz
    /\ IF SkipCohort(sz) THEN
            \* continue
            /\ conn' = Fetch(conn, 1)
            /\ UNCHANGED <<returned, fetched, retention_percent, cohorts, cohort_starts>>
       ELSE
            /\ conn' = Fetch(conn, 1 + QueriesOf(req.retention_type))
            /\ EmitCohort(granularity, cw, tw, sz,
                  GetReturnedUsers(db, req.retention_type, cw[1], cw[2], tw[1], tw[2]))

ScanWindow(granularity, cw) ==
    ScanCohort(granularity, cw, TargetWindow(granularity, cw[1], req.period),
               CountRegistered(db, cw[1], cw[2]))

\* One iteration of the scan loop, the same in the three branches but for
\* the windows and the labels.
RetentionIteration(granularity) ==
    /\ pc = "retention"
    /\ req.granularity = granularity
    /\ i < ScanCap(granularity, req.period)
    /\ i' = i + 1
    /\ ScanWindow(granularity, CohortWindow(granularity, now, i, req.period))
    /\ UNCHANGED <<today, db_pool, db, now, ticks, pc, req, current_date,
                   bucket_end, data_points, response>>

RetentionStepDay == RetentionIteration("day")

RetentionStepWeek == RetentionIteration("week")

RetentionStepMonth == RetentionIteration("month")

\* A query of the scan loop raises (the connection is lost, the statement
\* times out): the exception leaves the loop and the async with block and
\* reaches the except clause of the handler.
RetentionQueryFails ==
    /\ pc = "retention"
    /\ i < ScanCap(req.granularity, req.period)
    /\ conn' = Fetch(conn, 1)
    /\ response' = FailureResponse("PostgresError", cohorts)
    /\ pc' = "done"
    /\ UNCHANGED <<today, db_pool, db, now, ticks, req, locals, cohorts,
                   cohort_starts, current_date, bucket_end, data_points>>

RetentionReturn ==
    /\ pc = "retention"
    /\ i >= ScanCap(req.granularity, req.period)
    /\ response' = [status |-> 200, retention_type |-> req.retention_type,
                    granularity |-> req.granularity, period |-> req.period,
                    cohorts |-> cohorts]
    /\ pc' = "done"
    /\ UNCHANGED <<conn, today, db_pool, db, now, ticks, req, locals, cohorts, cohort_starts, current_date,
                   bucket_end, data_points>>

\* Midnight passes while the request is being served: the next
\* datetime.now() of the scan loop falls on the following day.
Tick ==
    /\ pc = "retention"
    /\ ticks < MaxTicks
    /\ now' = now + 1
    /\ ticks' = ticks + 1
    /\ UNCHANGED <<conn, today, db_pool, db, pc, req, locals, cohorts, cohort_starts, current_date,
                   bucket_end, data_points, response>>

Init ==
    /\ db_pool \in BOOLEAN
    /\ now \in StartDates
    /\ ticks = 0
    /\ db \in {DbOf(h) : h \in [UserIds -> HistoriesBefore(now)]}
    /\ pc = "idle"
    /\ req = NoRequest
    /\ InitLocals

Next ==
    \/ \E rt \in RetentionTypes \cup {"weekly"},
          g \in Granularities \cup {"year"},
          p \in 0..MaxPeriod : RetentionRequest(rt, g, p)
    \/ RetentionStepDay
    \/ RetentionStepWeek
    \/ RetentionStepMonth
    \/ RetentionReturn
    \/ RetentionQueryFails
    \/ Tick

Spec == Init /\ [][Next]_vars

----------------------------------------------------------------------------
(* get_timeseries_stats *)

\* SELECT COUNT(DISTINCT user_id) over one table's rows dated in [a, b]
CountWatered(d, a, b) ==
    Cardinality({r.user_id : r \in {c \in d.care_history :
        c.action_type = "watered" /\ InRange(c.action_date, a, b)}})

CountAddedPlants(d, a, b) ==
    Cardinality({r.user_id : r \in {c \in d.plants : InRange(c.saved_date, a, b)}})

CountAddedGrowing(d, a, b) ==
    Cardinality({r.user_id : r \in {c \in d.growing_plants :
        InRange(c.created_at, a, b)}})

CountAskedQuestion(d, a, b) ==
    Cardinality({r.user_id : r \in {c \in d.plant_qa_history :
        InRange(c.question_date, a, b)}})

CountLeftFeedback(d, a, b) ==
    Cardinality({r.user_id : r \in {c \in d.feedback : InRange(c.created_at, a, b)}})

CountOpenedBot(d, a, b) ==
    Cardinality({r.user_id : r \in {c \in d.users :
        c.last_activity # NULL /\ InRange(c.last_activity, a, b)}})

\* the record appended to data_points for the bucket [a, b]
DataPoint(d, granularity, a, b) ==
    [date |-> IsoFormat(a),
     label |-> IF granularity = "day" THEN DayMonth(CivilFromDays(a))
               ELSE WindowLabel(granularity, <<a, b>>),
     new_users |-> CountRegistered(d, a, b),
     watered |-> CountWatered(d, a, b),
     added_plants |-> CountAddedPlants(d, a, b),
     added_growing |-> CountAddedGrowing(d, a, b),
     asked_question |-> CountAskedQuestion(d, a, b),
     left_feedback |-> CountLeftFeedback(d, a, b),
     opened_bot |-> CountOpenedBot(d, a, b)]

\* The status the except clauses of the handler answer with:
\*   except ValueError -> 400; except Exception -> 500.
\* HTTPException is an Exception and not a ValueError.
ExceptStatus(exc) == IF exc = "ValueError" THEN 400 ELSE 500

\* variant of LoopContinues that excludes to_date
LoopStopsEarly(cur, to_date) == cur < to_date

\* while current_date <= to_date
LoopContinues(cur, to_date) == cur <= to_date

\* variant of WeekEnd without the min
WeekEndUnclamped(cur, to_date) == cur + 6

\* week_end = min(current_date + timedelta(days=6), to_date)
WeekEnd(cur, to_date) == Min(cur + 6, to_date)

ClampTo(month_end, to_date) == IF month_end > to_date THEN to_date ELSE month_end

\* month_end = current_date + relativedelta(months=1) - timedelta(days=1),
\* replaced by to_date when later
MonthEnd(cur, to_date) == ClampTo(AddMonths(cur, 1) - 1, to_date)

\* variant of RangeRejected that lets every range through
RangeRejectedNever(from_date, to_date) == FALSE

\* if from_date > to_date: raise, two lines above db_pool.acquire()
RangeRejected(from_date, to_date) == from_date > to_date

\* the first current_date of the loop
FirstBucketStart(granularity, from_date) ==
    IF granularity = "month" THEN FirstOfMonth(from_date) ELSE from_date

TimeseriesRequest(granularity, date_from, date_to) ==
    /\ pc = "idle"
    /\ IF granularity \notin Granularities THEN
            /\ req' = [handler |-> "timeseries", granularity |-> granularity,
                       date_from |-> date_from, date_to |-> date_to]
            /\ response' = [status |-> 422]
            /\ pc' = "done"
            /\ UNCHANGED current_date
       ELSE IF ~db_pool THEN
            /\ req' = [handler |-> "timeseries", granularity |-> granularity,
                       date_from |-> date_from, date_to |-> date_to]
            /\ response' = [status |-> 500, detail |-> "Database not connected"]
            /\ pc' = "done"
            /\ UNCHANGED current_date
       ELSE IF ~ValidDateText(date_from) \/ ~ValidDateText(date_to) THEN
            \* strptime raises ValueError
            /\ req' = [handler |-> "timeseries", granularity |-> granularity,
                       date_from |-> date_from, date_to |-> date_to]
            /\ response' = [status |-> ExceptStatus("ValueError"),
                            detail |-> "Invalid date format"]
            /\ pc' = "done"
            /\ UNCHANGED current_date
       ELSE
            /\ req' = [handler |-> "timeseries", granularity |-> granularity,
                       date_from |-> date_from, date_to |-> date_to,
                       from_date |-> ParseDate(date_from),
                       to_date |-> ParseDate(date_to)]
            /\ IF RangeRejected(ParseDate(date_from), ParseDate(date_to)) THEN
                    \* raise HTTPException(status_code=400, ...) inside the
                    \* try block
                    /\ response' = [status |-> ExceptStatus("HTTPException"),
                                    detail |-> "date_from must be before date_to"]
                    /\ pc' = "done"
                    /\ UNCHANGED current_date
               ELSE
                    /\ response' = response
                    /\ pc' = "timeseries"
                    /\ current_date' = FirstBucketStart(granularity,
                                                        ParseDate(date_from))
    /\ conn' = IF pc' = "timeseries" THEN Acquire(conn) ELSE conn
    /\ UNCHANGED <<today, db_pool, db, now, ticks, locals, cohorts, cohort_starts, bucket_end,
                   data_points>>

TimeseriesStepDay ==
    /\ pc = "timeseries"
    /\ req.granularity = "day"
    /\ LoopContinues(current_date, req.to_date)
    /\ bucket_end' = current_date
    /\ data_points' = Append(data_points,
                             DataPoint(db, "day", current_date, current_date))
    /\ current_date' = current_date + 1
    /\ conn' = Fetch(conn, QueriesPerBucket)
    /\ UNCHANGED <<today, db_pool, db, now, ticks, pc, req, locals, cohorts,
                   cohort_starts, response>>

TimeseriesStepWeek ==
    /\ pc = "timeseries"
    /\ req.granularity = "week"
    /\ LoopContinues(current_date, req.to_date)
    /\ bucket_end' = WeekEnd(current_date, req.to_date)
    /\ data_points' = Append(data_points,
                             DataPoint(db, "week", current_date, bucket_end'))
    /\ current_date' = current_date + 7
    /\ conn' = Fetch(conn, QueriesPerBucket)
    /\ UNCHANGED <<today, db_pool, db, now, ticks, pc, req, locals, cohorts,
                   cohort_starts, response>>

TimeseriesStepMonth ==
    /\ pc = "timeseries"
    /\ req.granularity = "month"
    /\ LoopContinues(current_date, req.to_date)
    /\ bucket_end' = MonthEnd(current_date, req.to_date)
    /\ data_points' = Append(data_points,
                             DataPoint(db, "month", current_date, bucket_end'))
    /\ current_date' = AddMonths(current_date, 1)
    /\ conn' = Fetch(conn, QueriesPerBucket)
    /\ UNCHANGED <<today, db_pool, db, now, ticks, pc, req, locals, cohorts,
                   cohort_starts, response>>

TimeseriesReturn ==
    /\ pc = "timeseries"
    /\ ~LoopContinues(current_date, req.to_date)
    /\ response' = [status |-> 200, granularity |-> req.granularity,
                    date_from |-> req.date_from, date_to |-> req.date_to,
                    data |-> data_points]
    /\ pc' = "done"
    /\ UNCHANGED <<conn, today, db_pool, db, now, ticks, req, locals, cohorts, cohort_starts, current_date,
                   bucket_end, data_points>>

\* A query of the bucket loop raises: asyncpg's connection and server errors
\* are not ValueError, so the second except clause answers.
TimeseriesQueryFails ==
    /\ pc = "timeseries"
    /\ LoopContinues(current_date, req.to_date)
    /\ conn' = Fetch(conn, 1)
    /\ response' = [FailureResponse("PostgresError", data_points)
                        EXCEPT !.status = ExceptStatus("PostgresError")]
    /\ pc' = "done"
    /\ UNCHANGED <<today, db_pool, db, now, ticks, req, locals, cohorts,
                   cohort_starts, current_date, bucket_end, data_points>>

\* date_from texts of the model: a Wednesday in mid-month, a Monday near a
\* month's end, and a date that does not exist
FromTexts == {<<2024, 2, 14>>, <<2024, 1, 29>>, <<2024, 2, 30>>}

\* date_to texts for a date_from text
ToTexts(date_from) ==
    IF ValidDateText(date_from)
    THEN {CivilFromDays(ParseDate(date_from) + k) : k \in (0 - 1)..MaxSpan}
         \cup {<<2024, 13, 1>>}
    ELSE {<<2024, 3, 1>>}

\* One user's possible history in the time-series runs: registered on
\* 2024-02-15; never seen again, or seen on 2024-02-17, or doing every kind
\* of action on 2024-02-17.
HistoriesTS ==
    LET t == DaysFromCivil(2024, 2, 14)
    IN  {[created_at |-> t + 1, last_activity |-> NULL, acts |-> {}, eday |-> NULL],
         [created_at |-> t + 1, last_activity |-> t + 3, acts |-> {}, eday |-> NULL],
         [created_at |-> t + 1, last_activity |-> t + 3,
          acts |-> {"watered", "fertilized", "added_plant", "asked_question",
                    "started_growing", "left_feedback"},
          eday |-> t + 3]}

InitTS ==
    /\ db_pool \in BOOLEAN
    /\ now = DaysFromCivil(2024, 3, 13)
    /\ ticks = 0
    /\ db \in {DbOf(h) : h \in [UserIds -> HistoriesTS]}
    /\ pc = "idle"
    /\ req = NoRequest
    /\ InitLocals

NextTS ==
    \/ \E g \in Granularities \cup {"year"}, f \in FromTexts :
          \E t \in ToTexts(f) : TimeseriesRequest(g, f, t)
    \/ TimeseriesStepDay
    \/ TimeseriesStepWeek
    \/ TimeseriesStepMonth
    \/ TimeseriesReturn
    \/ TimeseriesQueryFails

SpecTS == InitTS /\ [][NextTS]_vars

----------------------------------------------------------------------------
(* get_returned_users on its own: one cohort window, periods 1, 2, ... *)

EvalAnchors == {DaysFromCivil(2024, 3, 13)}

\* One user's possible history around a cohort day t: registered on t or
\* 40 days earlier; never seen again, or last seen 2, 8 or 35 days after t,
\* or acting (and last seen) 2 or 8 days after t.
HistoriesAround(t) ==
    {[created_at |-> t - c, last_activity |-> NULL, acts |-> {}, eday |-> NULL] :
        c \in {0, 40}}
    \cup {[created_at |-> t - c, last_activity |-> t + l, acts |-> {}, eday |-> NULL] :
        c \in {0, 40}, l \in {2, 8, 35}}
    \cup {[created_at |-> t - c, last_activity |-> t + e, acts |-> a, eday |-> t + e] :
        c \in {0, 40}, e \in {2, 8},
        a \in {{"watered"}, {"asked_question"}, {"watered", "added_plant"},
               {"watered", "added_plant", "asked_question"}, {"fertilized"}}}

InitEval ==
    /\ db_pool = TRUE
    /\ now \in EvalAnchors
    /\ ticks = 0
    /\ db \in {DbOf(h) : h \in [UserIds -> HistoriesAround(now)]}
    /\ pc = "eval"
    /\ \E rt \in RetentionTypes, g \in Granularities :
          /\ req = [handler |-> "get_returned_users", retention_type |-> rt,
                    granularity |-> g]
          /\ cohort_start = CohortWindow(g, now, 0, 0)[1]
          /\ cohort_end = CohortWindow(g, now, 0, 0)[2]
    /\ i = 0
    /\ target_start = NULL /\ target_end = NULL
    /\ cohort_size = 0 /\ returned = 0 /\ fetched = NoFetch
    /\ retention_percent = 0
    /\ cohorts = <<>>
    /\ current_date = NULL /\ bucket_end = NULL
    /\ data_points = <<>>
    /\ response = NoResponse
    /\ conn = NoConn
    /\ cohort_starts = <<>>
    /\ today = NoToday

\* the call's result res for the target window tw
EvalResult(tw, res) ==
    /\ target_start' = tw[1] /\ target_end' = tw[2]
    /\ returned' = res.returned
    /\ fetched' = res.fetched

EvalWindow(tw) ==
    EvalResult(tw, GetReturnedUsers(db, req.retention_type, cohort_start,
                                    cohort_end, tw[1], tw[2]))

\* the call made with period i + 1 for the cohort window of the state
EvalCall ==
    /\ pc = "eval"
    /\ i < MaxEvalPeriod
    /\ i' = i + 1
    /\ EvalWindow(TargetWindow(req.granularity, cohort_start, i + 1))
    /\ conn' = Fetch(conn, QueriesOf(req.retention_type))
    /\ UNCHANGED <<today, db_pool, db, now, ticks, pc, req, cohort_start, cohort_end,
                   cohort_size, retention_percent, cohorts, cohort_starts, current_date,
                   bucket_end, data_points, response>>

NextEval == EvalCall

SpecEval == InitEval /\ [][NextEval]_vars

----------------------------------------------------------------------------
(* The percentage expression on its own *)

InitPct ==
    /\ db_pool = TRUE
    /\ now \in EvalAnchors
    /\ ticks = 0
    /\ db = DbOf(<<>>)
    /\ pc = "percent"
    /\ req = NoRequest
    /\ i = 0
    /\ cohort_start = NULL /\ cohort_end = NULL
    /\ target_start = NULL /\ target_end = NULL
    /\ cohort_size \in 0..MaxReg
    /\ returned \in 0..cohort_size
    /\ fetched = NoFetch
    /\ retention_percent = 0
    /\ cohorts = <<>>
    /\ current_date = NULL /\ bucket_end = NULL
    /\ data_points = <<>>
    /\ response = NoResponse
    /\ conn = NoConn
    /\ cohort_starts = <<>>
    /\ today = NoToday

ComputePercent ==
    /\ pc = "percent"
    /\ retention_percent' = RetentionPercent(returned, cohort_size)
    /\ pc' = "done"
    /\ UNCHANGED <<conn, today, db_pool, db, now, ticks, req, i, cohort_start, cohort_end,
                   target_start, target_end, cohort_size, returned, fetched,
                   cohorts, cohort_starts, current_date, bucket_end, data_points, response>>

NextPct == ComputePercent

SpecPct == InitPct /\ [][NextPct]_vars

----------------------------------------------------------------------------
(* Properties of the cohort series and of get_returned_users *)

Abs(x) == IF x < 0 THEN 0 - x ELSE x

\* pct is num / den * 100 rounded to one decimal: no tenth is nearer
NearestTenth(pct, num, den) ==
    /\ 2 * Abs(pct * den - 1000 * num) <= den
    /\ 2 * Abs(pct * den - 1000 * num) = den => pct % 2 = 0

LastCohort == cohorts[Len(cohorts)]

\* C2: whatever the retention type and the granularity, an iteration whose
\* cohort window holds no registered user appends nothing to cohorts, and
\* every record of cohorts has registered > 0.
C2_EmptyCohortNeverEmitted ==
    [][/\ (pc = "retention" /\ i' = i + 1
            /\ CountRegistered(db, cohort_start', cohort_end') = 0)
          => cohorts' = cohorts
       /\ \A k \in 1..Len(cohorts') : cohorts'[k].registered > 0]_vars

\* an empty cohort was skipped after a record had been emitted
C2_Witness ==
    /\ pc = "retention" /\ i >= 2
    /\ cohort_size = 0
    /\ Len(cohorts) >= 1

\* C3: the functional count is the number of distinct cohort users that
\* watered, added a plant or asked a question in the target window: at
\* least the size of each of the three sets, at most their sum.
C3_FunctionalIsUnion ==
    (pc = "eval" /\ req.retention_type = "functional" /\ i >= 1) =>
        LET cohort == {u \in UserIds : \E r \in db.users :
                          /\ r.user_id = u
                          /\ r.created_at >= cohort_start
                          /\ r.created_at <= cohort_end}
            W == {u \in cohort : \E r \in db.care_history :
                    /\ r.user_id = u /\ r.action_type = "watered"
                    /\ r.action_date >= target_start /\ r.action_date <= target_end}
            A == {u \in cohort : \E r \in db.plants :
                    /\ r.user_id = u
                    /\ r.saved_date >= target_start /\ r.saved_date <= target_end}
            Q == {u \in cohort : \E r \in db.plant_qa_history :
                    /\ r.user_id = u
                    /\ r.question_date >= target_start /\ r.question_date <= target_end}
        IN  /\ returned = Cardinality({u \in UserIds : u \in W \/ u \in A \/ u \in Q})
            /\ returned >= Cardinality(W)
            /\ returned >= Cardinality(A)
            /\ returned >= Cardinality(Q)
            /\ returned <= Cardinality(W) + Cardinality(A) + Cardinality(Q)
            /\ fetched.watered_users = W
            /\ fetched.added_plant_users = A
            /\ fetched.asked_question_users = Q

\* a user is in more than one of the three fetched lists and counted once
C3_Witness ==
    /\ pc = "eval" /\ req.retention_type = "functional" /\ i >= 1
    /\ returned >= 1
    /\ fetched.watered_users \cap fetched.added_plant_users
          \cap fetched.asked_question_users # {}
    /\ returned < Cardinality(fetched.watered_users)
                  + Cardinality(fetched.added_plant_users)
                  + Cardinality(fetched.asked_question_users)

\* C4: for one cohort window and one database, the rolling count for period
\* N + 1 is never below the rolling count for period N, and the rolling
\* window starts the day after the cohort window ends.
C4_RollingMonotone ==
    [][(pc = "eval" /\ req.retention_type = "rolling" /\ i >= 1 /\ i' = i + 1)
          => /\ returned' >= returned
             /\ target_end' > target_end
             /\ returned' = Cardinality({r \in db.users :
                    /\ r.created_at >= cohort_start /\ r.created_at <= cohort_end
                    /\ r.last_activity # NULL
                    /\ r.last_activity > cohort_end
                    /\ r.last_activity <= target_end'})]_vars

\* the rolling count of period 2 includes a user seen after the end of the
\* target window of period 1
C4_Witness ==
    /\ pc = "eval" /\ req.retention_type = "rolling" /\ i = 2
    /\ \E r \in db.users :
          /\ r.created_at >= cohort_start /\ r.created_at <= cohort_end
          /\ r.last_activity > TargetWindow(req.granularity, cohort_start, 1)[2]
          /\ r.last_activity <= target_end
    /\ returned >= 1

\* C5: classic retention by day: the record emitted for the cohort day D
\* (its cohort_label) and period N counts the users registered on D, those
\* of them whose last_activity is D + N, and the one-decimal percentage.
C5_ClassicDayRecord ==
    [][(pc = "retention" /\ req.granularity = "day"
          /\ req.retention_type = "classic" /\ Len(cohorts') = Len(cohorts) + 1)
          => LET rec == cohorts'[Len(cohorts')]
                 D   == DaysFromCivil(rec.cohort_label[1], rec.cohort_label[2],
                                      rec.cohort_label[3])
                 reg == {r \in db.users : r.created_at = D}
                 ret == {r \in reg : r.last_activity = D + req.period}
             IN  /\ rec.registered = Cardinality(reg)
                 /\ rec.returned = Cardinality(ret)
                 /\ NearestTenth(rec.retention_percent, Cardinality(ret),
                                 Cardinality(reg))
                 /\ rec.target_label = CivilFromDays(D + req.period)]_vars

\* a day cohort of two users, one of whom came back on day D + N: 50.0
C5_Witness ==
    /\ pc = "retention" /\ req.granularity = "day"
    /\ req.retention_type = "classic"
    /\ Len(cohorts) >= 1
    /\ LastCohort.registered = 2
    /\ LastCohort.returned = 1
    /\ LastCohort.retention_percent = 500

\* C6: the percentage is returned / registered * 100 rounded to one decimal
\* when registered > 0, and 0 when registered = 0.
C6_PercentRounded ==
    pc = "done" =>
        IF cohort_size > 0
        THEN NearestTenth(retention_percent, returned, cohort_size)
        ELSE retention_percent = 0

\* registered 7, returned 3 gives 42.9
C6_Witness ==
    /\ pc = "done"
    /\ cohort_size = 7 /\ returned = 3
    /\ retention_percent = 429

----------------------------------------------------------------------------
(* Properties of the time series *)

IsTimeseries == req.handler = "timeseries" /\ req.granularity \in Granularities

DateOf(point) == DaysFromCivil(point.date[1], point.date[2], point.date[3])

\* C1: with the pool connected, a time-series request whose date_from is
\* later than its date_to is answered with status 400, not 500.
C1_InvalidRangeIsClientError ==
    (/\ pc = "done" /\ IsTimeseries /\ db_pool
     /\ ValidDateText(req.date_from) /\ ValidDateText(req.date_to)
     /\ ParseDate(req.date_from) > ParseDate(req.date_to))
        => response.status = 400

\* no table has a row dated d
NoEventsOn(d) ==
    /\ \A r \in db.users : r.created_at # d /\ r.last_activity # d
    /\ \A r \in db.care_history : r.action_date # d
    /\ \A r \in db.plants : r.saved_date # d
    /\ \A r \in db.growing_plants : r.created_at # d
    /\ \A r \in db.plant_qa_history : r.question_date # d
    /\ \A r \in db.feedback : r.created_at # d

AllCountsZero(point) ==
    /\ point.new_users = 0 /\ point.watered = 0 /\ point.added_plants = 0
    /\ point.added_growing = 0 /\ point.asked_question = 0
    /\ point.left_feedback = 0 /\ point.opened_bot = 0

\* C7: with granularity day, the data of a successful response is one
\* bucket per calendar day from date_from to date_to, in ascending order,
\* and a day without events is present with all its counts 0.
C7_DayBucketsZeroFilled ==
    (pc = "done" /\ IsTimeseries /\ req.granularity = "day"
        /\ response.status = 200)
        => LET from_date == ParseDate(req.date_from)
               to_date   == ParseDate(req.date_to)
           IN  /\ from_date <= to_date
               /\ Len(response.data) = to_date - from_date + 1
               /\ \A k \in 1..Len(response.data) :
                     /\ response.data[k].date = CivilFromDays(from_date + k - 1)
                     /\ NoEventsOn(from_date + k - 1)
                            => AllCountsZero(response.data[k])

\* a run of days of which one has events and another has none
C7_Witness ==
    /\ pc = "done" /\ IsTimeseries /\ req.granularity = "day"
    /\ response.status = 200
    /\ Len(response.data) >= 3
    /\ \E k \in 1..Len(response.data) : AllCountsZero(response.data[k])
    /\ \E k \in 1..Len(response.data) : response.data[k].watered >= 1

\* C8: with granularity week, the first bucket starts on the Monday on or
\* before date_from, and every bucket starts on a Monday.
C8_WeekBucketsStartMonday ==
    (pc \in {"timeseries", "done"} /\ IsTimeseries /\ req.granularity = "week"
        /\ Len(data_points) >= 1)
        => /\ DateOf(data_points[1]) = req.from_date - Weekday(req.from_date)
           /\ \A k \in 1..Len(data_points) : Weekday(DateOf(data_points[k])) = 0

\* C9: with granularity week or month, the end of each bucket is at most
\* date_to: the last bucket ends on date_to, every earlier one before it.
C9_BucketEndClamped ==
    (pc \in {"timeseries", "done"} /\ IsTimeseries
        /\ req.granularity \in {"week", "month"} /\ Len(data_points) >= 1)
        => /\ bucket_end <= req.to_date
           /\ bucket_end >= DateOf(data_points[Len(data_points)])
           /\ IF current_date > req.to_date
              THEN bucket_end = req.to_date
              ELSE bucket_end < req.to_date

\* the last week bucket is shorter than seven days
C9_Witness ==
    /\ pc = "done" /\ IsTimeseries /\ req.granularity = "week"
    /\ response.status = 200
    /\ Len(data_points) >= 2
    /\ bucket_end = req.to_date
    /\ bucket_end < DateOf(data_points[Len(data_points)]) + 6

\* C10: consecutive windows neither overlap nor leave a gap: the cohort
\* window of scan index i - 1 starts the day after the cohort window of
\* index i ends, and each time-series bucket starts the day after the
\* previous one ends.
C10_WindowsTile ==
    [][/\ (pc = "retention" /\ i >= 1 /\ i' = i + 1)
            => cohort_start = cohort_end' + 1
       /\ (pc = "timeseries" /\ Len(data_points) >= 1
            /\ Len(data_points') = Len(data_points) + 1)
            => current_date = bucket_end + 1]_vars


----------------------------------------------------------------------------
(* The two series handlers served by one process *)

NextBoth == Next \/ NextTS

SpecBoth == InitTS /\ [][NextBoth]_vars

\* the loop of the request in progress has buckets left to scan
SeriesUnfinished ==
    \/ pc = "retention" /\ i < ScanCap(req.granularity, req.period)
    \/ pc = "timeseries" /\ current_date <= req.to_date

\* C11: when a retention or time-series request ends while buckets are
\* still left to scan (a query has failed), its response has status 500
\* and carries a detail only, none of the cohorts or data points built so
\* far; the failing query was sent once, and a request that has ended
\* sends no query again.
C11_FailureDropsSeries ==
    [][/\ (SeriesUnfinished /\ pc' = "done") =>
            /\ response'.status = 500
            /\ DOMAIN response' = {"status", "detail"}
            /\ conn'.fetches = conn.fetches + 1
       /\ pc = "done" => conn' = conn]_vars

C11_Witness ==
    /\ pc = "done"
    /\ req.handler = "retention"
    /\ response.status = 500
    /\ response.detail = "PostgresError"
    /\ Len(cohorts) >= 1
    /\ conn.fetches >= 3

\* the request of the state is one the handlers refuse
BadRange ==
    /\ req.handler = "timeseries"
    /\ ValidDateText(req.date_from) /\ ValidDateText(req.date_to)
    /\ DaysFromCivil(req.date_from[1], req.date_from[2], req.date_from[3])
         > DaysFromCivil(req.date_to[1], req.date_to[2], req.date_to[3])

BadGranularity ==
    /\ req.handler \in {"timeseries", "retention"}
    /\ req.granularity \notin {"day", "week", "month"}

BadRetentionType ==
    /\ req.handler = "retention"
    /\ req.retention_type \notin {"classic", "functional", "rolling"}

\* C12: a request with date_from > date_to, with a granularity other than
\* day, week, month, or with a retention type other than classic,
\* functional, rolling ends without a 200 and has neither acquired a
\* connection nor sent a query.
C12_RejectedBeforeAnyQuery ==
    (BadRange \/ BadGranularity \/ BadRetentionType) =>
        /\ pc = "done"
        /\ response.status \notin {0, 200}
        /\ ~conn.acquired
        /\ conn.fetches = 0

C12_Witness ==
    /\ BadRange
    /\ db_pool
    /\ req.granularity = "day"
    /\ pc = "done"
    /\ conn = NoConn


----------------------------------------------------------------------------
(* get_returned_users while the users table is being written *)

\* users.last_activity is one column, overwritten with the date of the
\* user's latest visit
TouchedDb(d, u, day) ==
    [d EXCEPT !.users = {IF v.user_id = u THEN [v EXCEPT !.last_activity = day]
                         ELSE v : v \in @}]

\* the dates of later visits: the day after each earlier visit of the
\* model, a day in the following month, and a day five months on
TouchOffsets == {3, 9, 40, 150}

\* One user's history before the visits: registered on t or 40 days
\* earlier; never seen, or last seen 2 or 8 days after t.
HistoriesTouch(t) ==
    {[created_at |-> t - c, last_activity |-> NULL, acts |-> {}, eday |-> NULL] :
        c \in {0, 40}}
    \cup {[created_at |-> t - c, last_activity |-> t + l, acts |-> {}, eday |-> NULL] :
        c \in {0, 40}, l \in {2, 8}}

InitTouch ==
    /\ db_pool = TRUE
    /\ now \in EvalAnchors
    /\ ticks = 0
    /\ db \in {DbOf(h) : h \in [UserIds -> HistoriesTouch(now)]}
    /\ pc = "eval"
    /\ \E g \in Granularities :
          /\ req = [handler |-> "get_returned_users", retention_type |-> "classic",
                    granularity |-> g]
          /\ cohort_start = CohortWindow(g, now, 0, 0)[1]
          /\ cohort_end = CohortWindow(g, now, 0, 0)[2]
    /\ i = 0
    /\ target_start = NULL /\ target_end = NULL
    /\ cohort_size = 0 /\ returned = 0 /\ fetched = NoFetch
    /\ retention_percent = 0
    /\ cohorts = <<>>
    /\ current_date = NULL /\ bucket_end = NULL
    /\ data_points = <<>>
    /\ response = NoResponse
    /\ conn = NoConn
    /\ cohort_starts = <<>>
    /\ today = NoToday

\* user u visits on day: the row's last_activity moves forward
TouchUser(u, day) ==
    /\ pc = "eval"
    /\ \E v \in db.users :
          /\ v.user_id = u
          /\ v.last_activity = NULL \/ v.last_activity < day
    /\ db' = TouchedDb(db, u, day)
    /\ UNCHANGED <<conn, today, db_pool, now, ticks, pc, req, locals, cohorts,
                   cohort_starts, current_date, bucket_end, data_points,
                   response>>

NextTouch ==
    \/ EvalCall
    \/ \E u \in UserIds, k \in TouchOffsets : TouchUser(u, now + k)

SpecTouch == InitTouch /\ [][NextTouch]_vars

LastActivityOf(d, u) == (CHOOSE v \in d.users : v.user_id = u).last_activity

\* the classic count of the state's cohort and target windows over the
\* rows of d that belong to the users in ids
ClassicCountOf(d, ids) ==
    GetReturnedUsers([d EXCEPT !.users = {v \in @ : v.user_id \in ids}],
                     "classic", cohort_start, cohort_end,
                     target_start, target_end).returned

\* C13: when a user's last_activity moves to a date after the end of the
\* target window, classic retention does not count that user for the
\* window any more, whether or not the earlier last_activity was inside
\* it, and the classic count of the window does not increase.
C13_ClassicForgetsEarlierActivity ==
    [][\A u \in UserIds :
          (/\ target_end # NULL
           /\ LastActivityOf(db', u) # LastActivityOf(db, u)
           /\ LastActivityOf(db', u) > target_end) =>
               /\ ClassicCountOf(db', {u}) = 0
               /\ ClassicCountOf(db', UserIds) <= ClassicCountOf(db, UserIds)]_vars

\* the last call counted a user; since then the user was seen again after
\* the window and a call made now would count nobody
C13_Witness ==
    /\ pc = "eval"
    /\ target_end # NULL
    /\ returned >= 1
    /\ ClassicCountOf(db, UserIds) = 0
    /\ \E u \in UserIds :
          /\ LastActivityOf(db, u) > target_end
          /\ ClassicCountOf([db EXCEPT !.users =
                 {[v EXCEPT !.last_activity = target_end] : v \in @}], {u}) = 1


----------------------------------------------------------------------------
(* Calendar buckets, defined without the handler's arithmetic *)

\* the number of the month of day z, counted from year 0
MonthIndex(z) == CivilFromDays(z)[1] * 12 + CivilFromDays(z)[2] - 1

\* first and last day of the month numbered idx
MonthBucket(idx) ==
    <<DaysFromCivil(idx \div 12, (idx % 12) + 1, 1),
      DaysFromCivil(idx \div 12, (idx % 12) + 1,
                    DaysInMonth(idx \div 12, (idx % 12) + 1))>>

\* the seven days from a Monday that contain day z
WeekBucket(z) ==
    LET monday == CHOOSE m \in (z - 6)..z : Weekday(m) = 0
    IN  <<monday, monday + 6>>

\* the bucket containing day z minus k units
BucketBack(granularity, z, k) ==
    IF granularity = "day" THEN <<z - k, z - k>>
    ELSE IF granularity = "week" THEN WeekBucket(z - 7 * k)
    ELSE MonthBucket(MonthIndex(z) - k)

\* the number of buckets from the one starting at a to the one starting at b
BucketsBetween(granularity, a, b) ==
    IF granularity = "day" THEN b - a
    ELSE IF granularity = "week" THEN (b - a) \div 7
    ELSE MonthIndex(b) - MonthIndex(a)

\* C14: in every iteration of the scan loop, for each granularity, the
\* cohort window is the calendar bucket (day, Monday-to-Sunday week,
\* calendar month) containing now minus (i + period) units, the target
\* window is the bucket containing now minus i units, which lies exactly
\* period buckets after the cohort window, and the target window starts
\* after the cohort window ends.  now is the date the iteration reads.
C14_WindowsAreCalendarBuckets ==
    [][(pc = "retention" /\ i' = i + 1) =>
          /\ req.period >= 1
          /\ <<cohort_start', cohort_end'>>
                = BucketBack(req.granularity, now, i + req.period)
          /\ <<target_start', target_end'>> = BucketBack(req.granularity, now, i)
          /\ BucketsBetween(req.granularity, cohort_start', target_start')
                = req.period
          /\ target_start' > cohort_end']_vars

\* a month-granularity iteration run on the 31st of March: one month back
\* is the leap February
C14_Witness ==
    /\ pc = "retention"
    /\ req.granularity = "month" /\ req.period = 1
    /\ now = DaysFromCivil(2024, 3, 31) /\ ticks = 0
    /\ i = 1
    /\ cohort_start = DaysFromCivil(2024, 2, 1)
    /\ cohort_end = DaysFromCivil(2024, 2, 29)
    /\ target_start = DaysFromCivil(2024, 3, 1)
    /\ target_end = DaysFromCivil(2024, 3, 31)


----------------------------------------------------------------------------
(* The scan loop over the whole range of period *)

\* period: int = Query(7, ge=1, le=365)
PeriodLimit == 365

\* One user registered in each of the NScanUsers months before the month
\* of t, each seen again a month after registering.
ScanHistory(t) ==
    [u \in 1..NScanUsers |->
        [created_at |-> t - 31 * u, last_activity |-> t - 31 * u + 31,
         acts |-> {}, eday |-> NULL]]

InitScan ==
    /\ db_pool = TRUE
    /\ now = DaysFromCivil(2024, 3, 13)
    /\ ticks = 0
    /\ db = DbOf(ScanHistory(now))
    /\ pc = "idle"
    /\ req = NoRequest
    /\ InitLocals

NextScan ==
    \/ \E g \in Granularities, p \in 0..(PeriodLimit + 1) :
          RetentionRequest("classic", g, p)
    \/ RetentionStepDay
    \/ RetentionStepWeek
    \/ RetentionStepMonth
    \/ RetentionReturn
    \/ RetentionQueryFails

\* The event loop resumes the handler whenever the query it awaits has
\* returned or raised, so a request in its loop keeps taking steps: the
\* next iteration, the return after the last one, or the exception.
ScanProgress ==
    \/ RetentionQueryFails
    \/ RetentionReturn
    \/ RetentionStepDay
    \/ RetentionStepWeek
    \/ RetentionStepMonth

SpecScan == InitScan /\ [][NextScan]_vars /\ WF_vars(ScanProgress)

\* the greatest number of cohort windows a request may scan
CapOf(granularity, period) ==
    IF granularity = "day" THEN (IF period * 5 > 365 THEN 365 ELSE period * 5)
    ELSE IF granularity = "week" THEN (IF period * 5 > 52 THEN 52 ELSE period * 5)
    ELSE (IF period * 3 > 12 THEN 12 ELSE period * 3)

ScanWithinCap ==
    pc \in {"retention", "done"} /\ response.status \in {0, 200, 500} =>
        /\ i <= CapOf(req.granularity, req.period)
        /\ Len(cohorts) <= i
        /\ response.status = 200 =>
              /\ i = CapOf(req.granularity, req.period)
              /\ Len(response.cohorts) <= CapOf(req.granularity, req.period)

\* C15: a request never scans more than min(365, period * 5) cohort
\* windows for day, min(52, period * 5) for week, min(12, period * 3) for
\* month, so it never emits more records than that; and every accepted
\* request, whatever its period in 1..365, comes to an end.
C15_ScanCappedAndTerminates ==
    /\ []ScanWithinCap
    /\ (pc = "retention") ~> (pc = "done")

\* month granularity, period 1: the three months scanned all have a
\* registered user, so the series has as many records as the cap allows,
\* although a fourth month with a user lies before them
C15_Witness ==
    /\ pc = "done"
    /\ req.granularity = "month" /\ req.period = 1
    /\ response.status = 200
    /\ Len(response.cohorts) = 3
    /\ i = 3
    /\ CountRegistered(db, 0, cohort_start - 1) >= 1


\* C16: the cohorts list of a 200 response is in reverse chronological
\* order: of any two records the earlier in the list has the strictly
\* later cohort window start, so no cohort window appears twice.
C16_ReverseChronological ==
    (pc = "done" /\ req.handler = "retention" /\ response.status = 200) =>
        /\ Len(cohort_starts) = Len(response.cohorts)
        /\ \A a, b \in 1..Len(cohort_starts) :
              a < b => cohort_starts[a] > cohort_starts[b]

\* the range of period the handler's docstring gives for a granularity
DocumentedPeriods(granularity) ==
    IF granularity = "day" THEN 1..365
    ELSE IF granularity = "week" THEN 1..52
    ELSE 1..12

\* C17: a retention request whose period is outside the range documented
\* for its granularity (1-365 day, 1-52 week, 1-12 month) is rejected: it
\* ends without a 200, acquires no connection and computes no cohort.
C17_PeriodWithinDocumentedRange ==
    (/\ req.handler = "retention"
     /\ req.granularity \in Granularities
     /\ req.period \notin DocumentedPeriods(req.granularity)) =>
        /\ pc = "done"
        /\ response.status \notin {0, 200}
        /\ conn = NoConn
        /\ cohorts = <<>>


\* what get_returned_users answers for the state's windows under type rt
CountUnder(rt) ==
    GetReturnedUsers(db, rt, cohort_start, cohort_end,
                     target_start, target_end).returned

\* C18: for one cohort window, one target window and one content of the
\* tables, the rolling count is at least the classic count, and the day
\* after the cohort window's end is not later than the target window's
\* start, so the rolling window contains the classic target window.
C18_RollingAtLeastClassic ==
    (pc = "eval" /\ i >= 1) =>
        /\ cohort_end + 1 <= target_start
        /\ req.retention_type = "rolling" => returned >= CountUnder("classic")
        /\ req.retention_type = "classic" => returned <= CountUnder("rolling")

\* a rolling call that counts a user seen between the cohort window and
\* the target window, whom classic does not count
C18_Witness ==
    /\ pc = "eval" /\ i = 2
    /\ req.retention_type = "rolling" /\ req.granularity = "week"
    /\ returned = 1
    /\ CountUnder("classic") = 0
    /\ cohort_end + 1 < target_start


\* C19: every bucket get_timeseries_stats queries lies inside the requested
\* range: no bucket starts before date_from and none ends after date_to,
\* for day, week and month granularity.
C19_BucketsInsideRange ==
    (IsTimeseries /\ Len(data_points) >= 1) =>
        /\ \A k \in 1..Len(data_points) :
              /\ DateOf(data_points[k]) >= req.from_date
              /\ DateOf(data_points[k]) <= req.to_date
        /\ bucket_end <= req.to_date


----------------------------------------------------------------------------
(* get_today_stats, its queries interleaved with writes to the tables *)

\* One registered user's history on day t: registered 40 days earlier and
\* never seen, seen yesterday or seen today; or registered today and not
\* seen since or seen; a user seen today may have watered and added a
\* plant today.
HistoriesToday(t) ==
    {[created_at |-> t - 40, last_activity |-> l, acts |-> {}, eday |-> NULL] :
        l \in {NULL, t - 1, t}}
    \cup {[created_at |-> t, last_activity |-> l, acts |-> {}, eday |-> NULL] :
        l \in {NULL, t}}
    \cup {[created_at |-> c, last_activity |-> t,
           acts |-> {"watered", "added_plant"}, eday |-> t] : c \in {t - 40, t}}

InitToday ==
    /\ db_pool \in BOOLEAN
    /\ now = DaysFromCivil(2024, 3, 13)
    /\ ticks = 0
    /\ db \in {DbOf(h) : h \in UNION {[S -> HistoriesToday(now)] :
                                        S \in SUBSET UserIds}}
    /\ pc = "idle"
    /\ req = NoRequest
    /\ InitLocals

\* the handler up to its first query: today = datetime.now().date()
TodayRequest ==
    /\ pc = "idle"
    /\ req' = [handler |-> "today"]
    /\ IF ~db_pool THEN
            /\ response' = [status |-> 500, detail |-> "Database not connected"]
            /\ pc' = "done"
            /\ UNCHANGED <<conn, today>>
       ELSE
            /\ response' = response
            /\ pc' = "today"
            /\ conn' = Acquire(conn)
            /\ today' = [step |-> 1, date |-> now, total_users |-> 0,
                         new_users_today |-> 0, watered_today |-> 0,
                         users_watered_today |-> 0, added_plants_today |-> 0,
                         active_today |-> 0]
    /\ UNCHANGED <<db_pool, db, now, ticks, locals, cohorts, cohort_starts,
                   current_date, bucket_end, data_points>>

\* the query numbered step stores its value in the local named by field
TodayQuery(step, field, value) ==
    /\ pc = "today"
    /\ today.step = step
    /\ today' = [today EXCEPT ![field] = value, !.step = step + 1]
    /\ conn' = Fetch(conn, 1)
    /\ UNCHANGED <<db_pool, db, now, ticks, pc, req, locals, cohorts,
                   cohort_starts, current_date, bucket_end, data_points,
                   response>>

\* SELECT COUNT(*) FROM users
TodayTotalUsers == TodayQuery(1, "total_users", Cardinality(db.users))

TodayNewUsers ==
    TodayQuery(2, "new_users_today", CountRegistered(db, today.date, today.date))

\* COUNT(DISTINCT plant_id): each user of the model waters one plant
TodayWatered ==
    TodayQuery(3, "watered_today", CountWatered(db, today.date, today.date))

TodayUsersWatered ==
    TodayQuery(4, "users_watered_today", CountWatered(db, today.date, today.date))

TodayAddedPlants ==
    TodayQuery(5, "added_plants_today",
               CountAddedPlants(db, today.date, today.date))

\* SELECT COUNT(*) FROM users WHERE last_activity IS NOT NULL
\*   AND last_activity::date = today
TodayActive ==
    TodayQuery(6, "active_today", CountOpenedBot(db, today.date, today.date))

\* inactive_today = total_users - active_today if active_today
\*                  else total_users
InactiveToday(total_users, active_today) ==
    IF active_today # 0 THEN total_users - active_today ELSE total_users

TodayShare(count, total_users) ==
    [count |-> count, percent |-> RetentionPercent(count, total_users)]

TodayReturn ==
    /\ pc = "today"
    /\ today.step = 7
    /\ response' =
          [status |-> 200, date |-> IsoFormat(today.date),
           total_users |-> today.total_users,
           new_users |-> today.new_users_today,
           watered |-> TodayShare(today.users_watered_today, today.total_users),
           added_plants |-> TodayShare(today.added_plants_today,
                                       today.total_users),
           active |-> TodayShare(today.active_today, today.total_users),
           inactive |-> TodayShare(InactiveToday(today.total_users,
                                                 today.active_today),
                                   today.total_users)]
    /\ pc' = "done"
    /\ UNCHANGED <<conn, today, db_pool, db, now, ticks, req, locals, cohorts,
                   cohort_starts, current_date, bucket_end, data_points>>

\* a query raises: except Exception answers 500
TodayQueryFails ==
    /\ pc = "today"
    /\ today.step < 7
    /\ conn' = Fetch(conn, 1)
    /\ response' = FailureResponse("PostgresError", today)
    /\ pc' = "done"
    /\ UNCHANGED <<today, db_pool, db, now, ticks, req, locals, cohorts,
                   cohort_starts, current_date, bucket_end, data_points>>

\* While the handler awaits a query, the bot inserts the row of a new user
\* u, whose last_activity is la.
RegisterUser(u, la) ==
    /\ pc = "today"
    /\ \A v \in db.users : v.user_id # u
    /\ db' = [db EXCEPT !.users = @ \cup
                {[user_id |-> u, created_at |-> now, last_activity |-> la]}]
    /\ UNCHANGED <<conn, today, db_pool, now, ticks, pc, req, locals, cohorts,
                   cohort_starts, current_date, bucket_end, data_points,
                   response>>

\* While the handler awaits a query, the bot records a visit of user u.
VisitToday(u) ==
    /\ pc = "today"
    /\ \E v \in db.users : v.user_id = u /\ v.last_activity # now
    /\ db' = TouchedDb(db, u, now)
    /\ UNCHANGED <<conn, today, db_pool, now, ticks, pc, req, locals, cohorts,
                   cohort_starts, current_date, bucket_end, data_points,
                   response>>

NextToday ==
    \/ TodayRequest
    \/ TodayTotalUsers
    \/ TodayNewUsers
    \/ TodayWatered
    \/ TodayUsersWatered
    \/ TodayAddedPlants
    \/ TodayActive
    \/ TodayReturn
    \/ TodayQueryFails
    \/ \E u \in UserIds, la \in {NULL, now} : RegisterUser(u, la)
    \/ \E u \in UserIds : VisitToday(u)

SpecToday == InitToday /\ [][NextToday]_vars

\* C20: in every 200 response of get_today_stats, inactive.count is not
\* negative and active.count + inactive.count = total_users, whatever
\* rows are inserted into users and whatever last_activity values are
\* updated between the handler's queries.
C20_InactiveConsistent ==
    (pc = "done" /\ req.handler = "today" /\ response.status = 200) =>
        /\ response.inactive.count >= 0
        /\ response.active.count + response.inactive.count
              = response.total_users

============================================================================
